---- MODULE Spec2Model ----
(***************************************************************************)
(* Model of the ArgoCD backend router (service/router.ts): the DELETE      *)
(* handler                                                                 *)
(*   /argoInstance/:argoInstanceName/applications/:argoAppName             *)
(* One request is followed from its arrival to its response.  Every await  *)
(* of the handler is a position of pc; the ArgoService calls are external, *)
(* so each call's result is chosen among the outcomes the handler tells    *)
(* apart.                                                                  *)
(***************************************************************************)
EXTENDS Integers, Sequences, FiniteSets, TLC

(* ---------------------------------------------------------------------- *)
(* Bounds of the model                                                     *)
(* ---------------------------------------------------------------------- *)
MaxWaitCycles == 3
MaxInstances == 2

(* ---------------------------------------------------------------------- *)
(* JavaScript values: a value carries its typeof                           *)
(* ---------------------------------------------------------------------- *)
Undefined == [type |-> "undefined", val |-> ""]
Str(s) == [type |-> "string", val |-> s]
TypeOf(v) == v.type
\* (the test the wrong way round)
Falsy_Inverted(v) == ~(v.type = "undefined" \/ (v.type = "string" /\ v.val = ""))

\* !v for an optional string: undefined and the empty string are falsy
Falsy(v) == v.type = "undefined" \/ (v.type = "string" /\ v.val = "")

(* ---------------------------------------------------------------------- *)
(* Configuration: the instance directory and argocd.waitCycles             *)
(* ---------------------------------------------------------------------- *)
InstanceNames == {"prod", "dev"}
RequestNames == {"prod", "dev", "Prod"}
StaticTokens == {Undefined, Str("tok2")}
LoginTokens == {"tok1"}
Instances == [type : {"object"}, name : InstanceNames, token : StaticTokens]
Directories == UNION {[1..n -> Instances] : n \in 0..MaxInstances}
WaitCycleValues == 0..MaxWaitCycles

\* (a lookup that ignores the case of the names)
LowerCase(name) == IF name = "Prod" THEN "prod" ELSE name
Find_IgnoreCase(arr, name) ==
  IF \E i \in 1..Len(arr) : LowerCase(arr[i].name) = LowerCase(name)
    THEN arr[CHOOSE i \in 1..Len(arr) :
               /\ LowerCase(arr[i].name) = LowerCase(name)
               /\ \A j \in 1..(i - 1) :
                    LowerCase(arr[j].name) # LowerCase(name)]
    ELSE Undefined

\* Array.prototype.find with the predicate argoInstance.name === name:
\* the first element whose name is exactly equal, undefined when none is
Find(arr, name) ==
  IF \E i \in 1..Len(arr) : arr[i].name = name
    THEN arr[CHOOSE i \in 1..Len(arr) :
               /\ arr[i].name = name
               /\ \A j \in 1..(i - 1) : arr[j].name # name]
    ELSE Undefined

(* ---------------------------------------------------------------------- *)
(* Outcomes of the ArgoService calls, as far as the handler tells them     *)
(* apart                                                                   *)
(* ---------------------------------------------------------------------- *)
ErrorMessages == {Str("app not found"), Str("boom"), Undefined}
Errors == [message : ErrorMessages]
NoError == [message |-> Undefined]
Returned(k) == [kind |-> k, error |-> NoError]
Thrown(e) == [kind |-> "throw", error |-> e]
DeleteAppOutcomes == {Returned("true"), Returned("false")} \cup {Thrown(e) : e \in Errors}
GetArgoAppDataOutcomes == {Returned("metadata"), Returned("nometadata"), Thrown(NoError)}
DeleteProjectOutcomes == {Returned("return")} \cup {Thrown(e) : e \in Errors}
\* an upstream failure as the create, sync and login paths read it: e.status
\* (0 stands for an absent status, falsy like undefined) and e.message
StatusValues == {0, 401}
UpstreamMessages == {Str("upstream failed"), Str(""), Undefined}
UpstreamErrors == [message : UpstreamMessages, status : StatusValues]
GetArgoTokenOutcomes ==
  {Returned(t) : t \in LoginTokens} \cup {Thrown(e) : e \in UpstreamErrors}

\* 'metadata' in argoApp
MetadataIn(argoApp) == argoApp.kind = "metadata"

(* ---------------------------------------------------------------------- *)
(* State                                                                   *)
(* ---------------------------------------------------------------------- *)
VARIABLES
  argoInstanceArray,        \* the directory built at start-up
  argoWaitCycles,           \* argocd.waitCycles
  argoInstanceName,         \* request.params.argoInstanceName
  pc,                       \* the handler's position
  matchedArgoInstance,
  token,
  countinueToDeleteProject,
  isAppexist,
  isAppPendingDelete,
  attempts,
  argoDeleteAppResp,
  argoDeleteProjectResp,
  response,                 \* what was sent to the caller
  calls                     \* history: the awaited calls, in order

vars == <<argoInstanceArray, argoWaitCycles, argoInstanceName, pc,
          matchedArgoInstance, token, countinueToDeleteProject, isAppexist,
          isAppPendingDelete, attempts, argoDeleteAppResp,
          argoDeleteProjectResp, response, calls>>

config == <<argoInstanceArray, argoWaitCycles, argoInstanceName>>
flags == <<countinueToDeleteProject, isAppexist, isAppPendingDelete>>
resps == <<argoDeleteAppResp, argoDeleteProjectResp>>

Resp(s, m) == [status |-> s, message |-> m]
EmptyResp == Resp("", "")
NoResponse == [sent |-> FALSE, httpStatus |-> 0, body |-> [kind |-> "none"]]
Call(op, tok, out) == [op |-> op, token |-> tok, out |-> out]

Init ==
  /\ argoInstanceArray \in Directories
  /\ argoWaitCycles \in WaitCycleValues
  /\ argoInstanceName \in RequestNames
  /\ pc = "start"
  /\ matchedArgoInstance = Undefined
  /\ token = Undefined
  /\ countinueToDeleteProject = TRUE
  /\ isAppexist = TRUE
  /\ isAppPendingDelete = FALSE
  /\ attempts = 0
  /\ argoDeleteAppResp = EmptyResp
  /\ argoDeleteProjectResp = EmptyResp
  /\ response = NoResponse
  /\ calls = <<>>

(* ---------------------------------------------------------------------- *)
(* Responses                                                               *)
(* ---------------------------------------------------------------------- *)
\* response.status(500).send({status: 'failed', message: 'cannot find ...'})
InstanceNotFoundResponse ==
  [sent |-> TRUE, httpStatus |-> 500,
   body |-> [kind |-> "failure", status |-> "failed",
             message |-> "cannot find an argo instance to match this cluster"]]

\* (the upstream status dropped)
StatusOr500_Always500(status) == 500

\* e.status || 500
StatusOr500(status) == IF status = 0 THEN 500 ELSE status

\* a rejection that leaves the async handler is passed on to errorHandler()
\* (router.use(errorHandler())), which answers with the error's status, 500
\* when it has none, and the error's message
ErrorHandlerResponse(e) ==
  [sent |-> TRUE, httpStatus |-> StatusOr500(e.status),
   body |-> [kind |-> "errorHandler", status |-> e.status,
             message |-> e.message]]

\* response.send({argoDeleteAppResp, argoDeleteProjectResp}): no status set,
\* so the HTTP status is 200
CompositeResponse(app, proj) ==
  [sent |-> TRUE, httpStatus |-> 200,
   body |-> [kind |-> "composite", argoDeleteAppResp |-> app,
             argoDeleteProjectResp |-> proj]]

(* ---------------------------------------------------------------------- *)
(* The DELETE handler                                                      *)
(* ---------------------------------------------------------------------- *)
\* instance lookup and the choice between the static token and a login
Resolve ==
  /\ pc = "start"
  /\ LET m == Find(argoInstanceArray, argoInstanceName) IN
       /\ matchedArgoInstance' = m
       /\ IF m = Undefined
            THEN /\ response' = InstanceNotFoundResponse
                 /\ pc' = "done"
                 /\ token' = token
            ELSE /\ response' = response
                 /\ IF Falsy(m.token)
                      THEN pc' = "getArgoToken" /\ token' = token
                      ELSE pc' = "deleteApp" /\ token' = m.token
  /\ UNCHANGED <<config, flags, attempts, resps, calls>>

\* token = await argoSvc.getArgoToken(matchedArgoInstance), outside any try
GetArgoToken ==
  /\ pc = "getArgoToken"
  /\ \E out \in GetArgoTokenOutcomes :
       /\ calls' = Append(calls, Call("getArgoToken", Undefined, out))
       /\ IF out.kind = "throw"
            THEN /\ response' = ErrorHandlerResponse(out.error)
                 /\ pc' = "done"
                 /\ token' = token
            ELSE /\ response' = response
                 /\ pc' = "deleteApp"
                 /\ token' = Str(out.kind)
  /\ UNCHANGED <<config, matchedArgoInstance, flags, attempts, resps>>

\* (a loop that runs once more)
LoopTest_OneMore(a) == a <= argoWaitCycles

\* (a loop whose test never fails)
LoopTest_Unbounded(a) == TRUE

\* for (...; attempts < argoWaitCycles; ...)
LoopTest(a) == a < argoWaitCycles

\* if (attempts === argoWaitCycles) in the poll loop's catch
FinalAttempt(a) == a = argoWaitCycles

\* (a rejected deletion that does not block the project's deletion)
ContinueAfterDeleteApp_NeverBlocked(out) == TRUE

\* countinueToDeleteProject after the deleteApp try/catch
ContinueAfterDeleteApp(out) ==
  IF out.kind = "false" THEN FALSE ELSE TRUE

\* (any thrown error taken for "the application does not exist")
AppExistsAfterDeleteApp_AnyThrow(out) ==
  IF out.kind = "throw" THEN FALSE ELSE TRUE

\* (a catch that does not clear isAppexist)
AppExistsAfterDeleteApp_NeverCleared(out) == TRUE

\* isAppexist after the deleteApp try/catch
AppExistsAfterDeleteApp(out) ==
  IF out.kind = "throw" /\ TypeOf(out.error.message) = "string"
    THEN FALSE ELSE TRUE

\* argoDeleteAppResp after the deleteApp try/catch
AppRespAfterDeleteApp(out) ==
  IF out.kind = "false"
    THEN Resp("failed", "error with deleteing argo app")
    ELSE IF out.kind = "throw" /\ TypeOf(out.error.message) = "string"
           THEN Resp("failed", out.error.message.val)
           ELSE EmptyResp

\* if (isAppexist) { for (let attempts = 0; attempts < argoWaitCycles; ...
EntersPolling(exists) == exists /\ LoopTest(0)

DeleteApp ==
  /\ pc = "deleteApp"
  /\ \E out \in DeleteAppOutcomes :
       /\ calls' = Append(calls, Call("deleteApp", token, out))
       /\ countinueToDeleteProject' = ContinueAfterDeleteApp(out)
       /\ isAppexist' = AppExistsAfterDeleteApp(out)
       /\ argoDeleteAppResp' = AppRespAfterDeleteApp(out)
       /\ pc' = IF EntersPolling(AppExistsAfterDeleteApp(out))
                  THEN "getArgoAppData" ELSE "decide"
  /\ isAppPendingDelete' = FALSE
  /\ attempts' = 0
  /\ UNCHANGED <<config, matchedArgoInstance, token, argoDeleteProjectResp,
                 response>>

\* the app outcome written by the poll loop's catch
AppRespAfterPollError(a, resp) ==
  IF FinalAttempt(a) THEN Resp("failed", "error getting argo app data")
                     ELSE resp

\* (a catch that forgets what the earlier attempts saw)
PendingAfterPollError_Cleared(pending) == FALSE

\* isAppPendingDelete after the poll loop's catch: it is not assigned there
PendingAfterPollError(pending) == pending

\* (a loop that does not break once the application is gone)
PcAfterAppData_NoBreak(pending) == "timer"

\* after isAppPendingDelete is set: break when the application is gone,
\* await timer(5000) when it is still there
PcAfterAppData(pending) == IF pending THEN "timer" ELSE "decide"

\* one iteration of the poll loop, up to its next await
GetArgoAppData ==
  /\ pc = "getArgoAppData"
  /\ \E out \in GetArgoAppDataOutcomes :
       /\ calls' = Append(calls, Call("getArgoAppData", token, out))
       /\ IF out.kind = "throw"
            THEN \* catch: continue
                 /\ argoDeleteAppResp' =
                      AppRespAfterPollError(attempts, argoDeleteAppResp)
                 /\ isAppPendingDelete' =
                      PendingAfterPollError(isAppPendingDelete)
                 /\ attempts' = attempts + 1
                 /\ pc' = IF LoopTest(attempts + 1)
                            THEN "getArgoAppData" ELSE "decide"
            ELSE /\ isAppPendingDelete' = MetadataIn(out)
                 /\ argoDeleteAppResp' =
                      IF ~MetadataIn(out)
                        THEN Resp("success",
                                  "application is deleted successfully")
                        ELSE argoDeleteAppResp
                 /\ attempts' = attempts
                 /\ pc' = PcAfterAppData(MetadataIn(out))
  /\ UNCHANGED <<config, matchedArgoInstance, token, countinueToDeleteProject,
                 isAppexist, argoDeleteProjectResp, response>>

\* await timer(5000), then attempts++ and the loop test
Timer ==
  /\ pc = "timer"
  /\ calls' = Append(calls, Call("timer", Undefined, Returned("return")))
  /\ attempts' = attempts + 1
  /\ pc' = IF LoopTest(attempts + 1) THEN "getArgoAppData" ELSE "decide"
  /\ UNCHANGED <<config, matchedArgoInstance, token, flags, resps, response>>

\* (the pending branch guarded by the wrong flag)
PendingBranch_WrongFlag == isAppPendingDelete /\ countinueToDeleteProject

\* if (isAppPendingDelete && isAppexist)
PendingBranch == isAppPendingDelete /\ isAppexist

\* the project outcome written by the catch around the decision
ProjectRespAfterError(e) ==
  IF TypeOf(e.message) = "string"
    THEN Resp("failed", e.message.val)
    ELSE Resp("failed", "error with deleteing argo project")

\* the decision about the project, up to the deleteProject await or the send
ProjectDecision ==
  /\ pc = "decide"
  /\ IF PendingBranch
       THEN /\ argoDeleteAppResp' = Resp("failed", "application pending delete")
            /\ argoDeleteProjectResp' =
                 Resp("failed",
                      "skipping project deletion due to app deletion pending")
            /\ response' =
                 CompositeResponse(argoDeleteAppResp', argoDeleteProjectResp')
            /\ pc' = "done"
       ELSE IF countinueToDeleteProject
              THEN /\ pc' = "deleteProject"
                   /\ UNCHANGED <<resps, response>>
              ELSE /\ argoDeleteProjectResp' =
                        Resp("failed",
                             "skipping project deletion due to erro deleting argo app")
                   /\ argoDeleteAppResp' = argoDeleteAppResp
                   /\ response' =
                        CompositeResponse(argoDeleteAppResp',
                                          argoDeleteProjectResp')
                   /\ pc' = "done"
  /\ UNCHANGED <<config, matchedArgoInstance, token, flags, attempts, calls>>

\* await argoSvc.deleteProject(...), its catch, and response.send
DeleteProject ==
  /\ pc = "deleteProject"
  /\ \E out \in DeleteProjectOutcomes :
       /\ calls' = Append(calls, Call("deleteProject", token, out))
       /\ argoDeleteProjectResp' =
            IF out.kind = "throw"
              THEN ProjectRespAfterError(out.error)
              ELSE Resp("success", "project is deleted successfully")
  /\ response' = CompositeResponse(argoDeleteAppResp, argoDeleteProjectResp')
  /\ pc' = "done"
  /\ UNCHANGED <<config, matchedArgoInstance, token, flags, attempts,
                 argoDeleteAppResp>>

Next ==
  \/ Resolve
  \/ GetArgoToken
  \/ DeleteApp
  \/ GetArgoAppData
  \/ Timer
  \/ ProjectDecision
  \/ DeleteProject

Spec == Init /\ [][Next]_vars

\* the event loop runs a continuation once its promise has settled, the
\* client's promises settle, and the timer fires
FairSpec == Spec /\ WF_vars(Next)

(* ---------------------------------------------------------------------- *)
(* What a request did, read from its history                               *)
(* ---------------------------------------------------------------------- *)
CallsOf(op) == SelectSeq(calls, LAMBDA c : c.op = op)
Count(op) == Len(CallsOf(op))
Polls == CallsOf("getArgoAppData")
DeleteAppCalled == Count("deleteApp") = 1
DeleteAppOut == CallsOf("deleteApp")[1].out
DeleteProjectOut == CallsOf("deleteProject")[1].out
ThrewString(out) == out.kind = "throw" /\ out.error.message.type = "string"
Responded == pc = "done" /\ response.sent
Composite == Responded /\ response.body.kind = "composite"
SentApp == response.body.argoDeleteAppResp
SentProject == response.body.argoDeleteProjectResp
\* the place in calls of the k-th getArgoAppData call
PollIndex(k) ==
  CHOOSE i \in 1..Len(calls) :
    /\ calls[i].op = "getArgoAppData"
    /\ Cardinality({j \in 1..i : calls[j].op = "getArgoAppData"}) = k

(* ---------------------------------------------------------------------- *)
(* Claims                                                                  *)
(* ---------------------------------------------------------------------- *)

\* C1: in every composite response the project outcome is not 'success'
\* unless some getArgoAppData call returned a result lacking 'metadata' or
\* deleteApp reported the application as non-existent (threw an error whose
\* message is a string).
C1_NoProjectSuccessWhenIndeterminate ==
  (Composite /\ SentProject.status = "success") =>
    \/ \E k \in 1..Len(Polls) : Polls[k].out.kind = "nometadata"
    \/ ThrewString(DeleteAppOut)

\* C2: when the application was treated as existing and each of the
\* argoWaitCycles (>= 1) getArgoAppData calls returned a result with
\* 'metadata', the response carries {failed, 'application pending delete'}
\* and {failed, 'skipping project deletion due to app deletion pending'},
\* and deleteProject was not called, whatever deleteApp had recorded.
C2_AllMetadata ==
  /\ DeleteAppCalled
  /\ isAppexist
  /\ argoWaitCycles >= 1
  /\ Len(Polls) = argoWaitCycles
  /\ \A k \in 1..Len(Polls) : Polls[k].out.kind = "metadata"

C2_PendingOverrides ==
  (pc = "done" /\ C2_AllMetadata) =>
    /\ Composite
    /\ SentApp = Resp("failed", "application pending delete")
    /\ SentProject =
         Resp("failed", "skipping project deletion due to app deletion pending")
    /\ Count("deleteProject") = 0

C2_Witness ==
  /\ pc = "done"
  /\ C2_AllMetadata
  /\ argoWaitCycles >= 2
  /\ DeleteAppOut.kind = "false"
  /\ SentApp = Resp("failed", "application pending delete")

\* C3: when deleteApp returned false, the response's app status is 'failed',
\* deleteProject was not called and the project outcome is
\* {failed, 'skipping project deletion due to erro deleting argo app'}.
C3_DeleteAppFalseBlocks ==
  (Composite /\ DeleteAppOut.kind = "false") =>
    /\ SentApp.status = "failed"
    /\ Count("deleteProject") = 0
    /\ SentProject =
         Resp("failed", "skipping project deletion due to erro deleting argo app")

\* C4: when deleteApp threw an error whose message is a string, no
\* getArgoAppData call (and no delay) is ever made; the response carries
\* the app outcome {failed, that message}; deleteProject was called exactly
\* once, and the project status is 'success' if it returned and 'failed' if
\* it threw.
C4_NotFoundStillDeletesProject ==
  (DeleteAppCalled /\ ThrewString(DeleteAppOut)) =>
    /\ Count("getArgoAppData") = 0
    /\ Count("timer") = 0
    /\ Count("deleteProject") <= 1
    /\ pc = "done" =>
         /\ Composite
         /\ SentApp = Resp("failed", DeleteAppOut.error.message.val)
         /\ Count("deleteProject") = 1
         /\ SentProject.status =
              IF DeleteProjectOut.kind = "throw" THEN "failed" ELSE "success"

C4_Witness ==
  /\ Composite
  /\ DeleteAppOut = Thrown([message |-> Str("app not found")])
  /\ matchedArgoInstance.token = Str("tok2")
  /\ Count("getArgoToken") = 0
  /\ SentApp = Resp("failed", "app not found")
  /\ SentProject.status = "success"

\* C5: once the k-th getArgoAppData call is the first to return a result
\* lacking 'metadata', it is the last one (exactly k calls), no delay
\* follows it, and the app outcome is
\* {success, 'application is deleted successfully'}, also in the response.
C5_PollStopsWhenGone ==
  \A k \in 1..Len(Polls) :
    (/\ Polls[k].out.kind = "nometadata"
     /\ \A j \in 1..(k - 1) : Polls[j].out.kind # "nometadata") =>
      /\ k <= argoWaitCycles
      /\ Len(Polls) = k
      /\ \A i \in (PollIndex(k) + 1)..Len(calls) : calls[i].op # "timer"
      /\ argoDeleteAppResp =
           Resp("success", "application is deleted successfully")
      /\ pc = "done" =>
           /\ Composite
           /\ SentApp = Resp("success", "application is deleted successfully")

C5_Witness ==
  /\ Composite
  /\ Len(Polls) = 3
  /\ Polls[1].out.kind = "metadata"
  /\ Polls[2].out.kind = "throw"
  /\ Polls[3].out.kind = "nometadata"
  /\ Count("timer") = 1
  /\ SentApp.status = "success"

\* C6: when the loop is left because the getArgoAppData call of the final
\* attempt (the argoWaitCycles-th call) threw, the app outcome recorded is
\* {failed, 'error getting argo app data'}.
C6_FinalAttemptErrorRecorded ==
  (/\ pc = "decide"
   /\ argoWaitCycles >= 1
   /\ Len(Polls) = argoWaitCycles
   /\ Polls[Len(Polls)].out.kind = "throw") =>
    argoDeleteAppResp = Resp("failed", "error getting argo app data")

\* C7: getArgoAppData is called only if deleteApp returned without throwing
\* and did not return false.
C7_PollOnlyAfterAcceptedDelete ==
  Count("getArgoAppData") >= 1 =>
    (DeleteAppCalled /\ DeleteAppOut.kind = "true")

\* C8: outside the pending-delete branch, deleteProject is called (once) if
\* and only if deleteApp did not return false; its outcome is
\* {success, 'project is deleted successfully'} exactly when the call
\* returned, {failed, m} when it threw an error with the string message m,
\* and {failed, 'error with deleteing argo project'} when the message is not
\* a string; no response says 'success' for the project without a
\* deleteProject call that returned.
C8_ProjectDecision ==
  Composite =>
    /\ ~(isAppPendingDelete /\ isAppexist) =>
         /\ Count("deleteProject") = (IF DeleteAppOut.kind = "false" THEN 0 ELSE 1)
         /\ Count("deleteProject") = 1 =>
              SentProject =
                IF DeleteProjectOut.kind # "throw"
                  THEN Resp("success", "project is deleted successfully")
                  ELSE IF DeleteProjectOut.error.message.type = "string"
                         THEN Resp("failed", DeleteProjectOut.error.message.val)
                         ELSE Resp("failed", "error with deleteing argo project")
    /\ SentProject.status = "success" =>
         (Count("deleteProject") = 1 /\ DeleteProjectOut.kind = "return")

C8_Witness ==
  /\ Composite
  /\ ~(isAppPendingDelete /\ isAppexist)
  /\ Count("getArgoAppData") >= 1
  /\ Count("deleteProject") = 1
  /\ DeleteProjectOut = Thrown([message |-> Undefined])
  /\ SentProject = Resp("failed", "error with deleteing argo project")

\* C9: in every composite response both statuses are 'success' or 'failed'.
C9_StatusesSet ==
  Composite =>
    /\ SentApp.status \in {"success", "failed"}
    /\ SentProject.status \in {"success", "failed"}

\* C10: once the instance and the token are resolved, the request
\* eventually ends with the composite response and HTTP status 200; no
\* other response is ever sent for it, and at most argoWaitCycles
\* getArgoAppData calls are made.
TokenResolved ==
  /\ pc \notin {"start", "getArgoToken"}
  /\ matchedArgoInstance # Undefined
  /\ token.type = "string"

C10_CompositeSent ==
  /\ pc = "done"
  /\ response =
       CompositeResponse(argoDeleteAppResp, argoDeleteProjectResp)
  /\ response.httpStatus = 200

C10_AlwaysCompletes ==
  /\ TokenResolved ~> C10_CompositeSent
  /\ [](TokenResolved =>
          /\ Count("getArgoAppData") <= argoWaitCycles
          /\ response.sent => C10_CompositeSent)

C10_Witness ==
  /\ TokenResolved
  /\ C10_CompositeSent
  /\ Count("getArgoAppData") = argoWaitCycles
  /\ argoWaitCycles >= 2
  /\ DeleteAppOut = Thrown([message |-> Undefined])
  /\ DeleteProjectOut.kind = "throw"

(* ---------------------------------------------------------------------- *)
(* The other handlers that name an instance or relay an upstream failure:  *)
(* the two instance-scoped GETs, POST /createArgo and POST /sync.  They    *)
(* use the same request variables; pc tells the handlers apart.            *)
(* ---------------------------------------------------------------------- *)
GetDataOutcomes ==
  {Returned("metadata"), Returned("nometadata")}
    \cup {Thrown(e) : e \in UpstreamErrors}
CreateOutcomes == {Returned("return")} \cup {Thrown(e) : e \in UpstreamErrors}
SyncOutcomes == {Returned("return")} \cup {Thrown(e) : e \in UpstreamErrors}

\* e.message || fallback
MessageOr(message, fallback) == IF Falsy(message) THEN Str(fallback) ELSE message

\* response.status(httpStatus).send({status, message})
UpstreamErrorResponse(httpStatus, status, message) ==
  [sent |-> TRUE, httpStatus |-> httpStatus,
   body |-> [kind |-> "upstream", status |-> status, message |-> message]]

\* response.send(data): no status set, so the HTTP status is 200
DataResponse(data) ==
  [sent |-> TRUE, httpStatus |-> 200, body |-> [kind |-> "data", data |-> data]]

\* the positions of the two GET handlers, which differ in the ref they pass
GetPositions(ref) ==
  IF ref = "name"
    THEN [start |-> "getByName:start", login |-> "getByName:getArgoToken",
          data |-> "getByName:getArgoAppData", done |-> "getByName:done"]
    ELSE [start |-> "getBySelector:start",
          login |-> "getBySelector:getArgoToken",
          data |-> "getBySelector:getArgoAppData",
          done |-> "getBySelector:done"]

\* instance lookup and token choice, as every instance-scoped handler does it
ResolveAt(start, login, next, done) ==
  /\ pc = start
  /\ LET m == Find(argoInstanceArray, argoInstanceName) IN
       /\ matchedArgoInstance' = m
       /\ IF m = Undefined
            THEN /\ response' = InstanceNotFoundResponse
                 /\ pc' = done
                 /\ token' = token
            ELSE /\ response' = response
                 /\ IF Falsy(m.token)
                      THEN pc' = login /\ token' = token
                      ELSE pc' = next /\ token' = m.token
  /\ UNCHANGED <<config, flags, attempts, resps, calls>>

GetResolve(ref) ==
  ResolveAt(GetPositions(ref).start, GetPositions(ref).login,
            GetPositions(ref).data, GetPositions(ref).done)

\* token = await argoSvc.getArgoToken(matchedArgoInstance), outside any try
GetLogin(ref) ==
  /\ pc = GetPositions(ref).login
  /\ \E out \in GetArgoTokenOutcomes :
       /\ calls' = Append(calls, Call("getArgoToken", Undefined, out))
       /\ IF out.kind = "throw"
            THEN /\ response' = ErrorHandlerResponse(out.error)
                 /\ pc' = GetPositions(ref).done
                 /\ token' = token
            ELSE /\ response' = response
                 /\ pc' = GetPositions(ref).data
                 /\ token' = Str(out.kind)
  /\ UNCHANGED <<config, matchedArgoInstance, flags, attempts, resps>>

\* const resp = await argoSvc.getArgoAppData(...); return response.send(resp)
GetData(ref) ==
  /\ pc = GetPositions(ref).data
  /\ \E out \in GetDataOutcomes :
       /\ calls' = Append(calls, Call("getArgoAppData", token, out))
       /\ response' = IF out.kind = "throw"
                        THEN ErrorHandlerResponse(out.error)
                        ELSE DataResponse(out.kind)
  /\ pc' = GetPositions(ref).done
  /\ UNCHANGED <<config, matchedArgoInstance, token, flags, attempts, resps>>

GetByNameResolve == GetResolve("name")
GetByNameLogin == GetLogin("name")
GetByNameData == GetData("name")
GetBySelectorResolve == GetResolve("selector")
GetBySelectorLogin == GetLogin("selector")
GetBySelectorData == GetData("selector")

\* POST /createArgo: lookup of request.body.clusterName and token choice
CreateResolve ==
  ResolveAt("create:start", "create:getArgoToken", "create:createArgoProject",
            "create:done")

\* the response of the catch around getArgoToken in POST /createArgo
CreateLoginErrorResponse(e) ==
  UpstreamErrorResponse(StatusOr500(e.status), e.status, e.message)

\* try { token = await argoSvc.getArgoToken(...) } catch (e) { return ... }
CreateLogin ==
  /\ pc = "create:getArgoToken"
  /\ \E out \in GetArgoTokenOutcomes :
       /\ calls' = Append(calls, Call("getArgoToken", Undefined, out))
       /\ IF out.kind = "throw"
            THEN /\ response' = CreateLoginErrorResponse(out.error)
                 /\ pc' = "create:done"
                 /\ token' = token
            ELSE /\ response' = response
                 /\ pc' = "create:createArgoProject"
                 /\ token' = Str(out.kind)
  /\ UNCHANGED <<config, matchedArgoInstance, flags, attempts, resps>>

\* the response of the catch around createArgoProject
CreateProjectErrorResponse(e) ==
  UpstreamErrorResponse(StatusOr500(e.status), e.status,
                        MessageOr(e.message, "Failed to create argo project"))

\* (a project failure that is only logged)
PcAfterCreateProject_Swallowed(out) == "create:createArgoApplication"

\* the catch around createArgoProject returns; otherwise the handler goes on
PcAfterCreateProject(out) ==
  IF out.kind = "throw" THEN "create:done" ELSE "create:createArgoApplication"

\* try { await argoSvc.createArgoProject(...) } catch (e) { return ... }
CreateArgoProject ==
  /\ pc = "create:createArgoProject"
  /\ \E out \in CreateOutcomes :
       /\ calls' = Append(calls, Call("createArgoProject", token, out))
       /\ response' = IF out.kind = "throw"
                        THEN CreateProjectErrorResponse(out.error)
                        ELSE response
       /\ pc' = PcAfterCreateProject(out)
  /\ UNCHANGED <<config, matchedArgoInstance, token, flags, attempts, resps>>

\* (the application's failure answered like the project's)
CreateAppErrorResponse_Mirrored(e) ==
  UpstreamErrorResponse(StatusOr500(e.status), e.status,
                        MessageOr(e.message, "Failed to create argo app"))

\* (the application's failure answered without the fallback message)
CreateAppErrorResponse_NoFallback(e) ==
  UpstreamErrorResponse(500, 500, e.message)

\* the response of the catch around createArgoApplication: always 500
CreateAppErrorResponse(e) ==
  UpstreamErrorResponse(500, 500,
                        MessageOr(e.message, "Failed to create argo app"))

\* try { await argoSvc.createArgoApplication(...); return response.send(...) }
\* catch (e) { return response.status(500).send(...) }
CreateArgoApplication ==
  /\ pc = "create:createArgoApplication"
  /\ \E out \in CreateOutcomes :
       /\ calls' = Append(calls, Call("createArgoApplication", token, out))
       /\ response' = IF out.kind = "throw"
                        THEN CreateAppErrorResponse(out.error)
                        ELSE DataResponse("created")
  /\ pc' = "create:done"
  /\ UNCHANGED <<config, matchedArgoInstance, token, flags, attempts, resps>>

\* the response of the catch in POST /sync
SyncErrorResponse(e) ==
  UpstreamErrorResponse(StatusOr500(e.status), StatusOr500(e.status),
                        MessageOr(e.message, "Failed to sync your app"))

\* POST /sync: no instance is named and no token is resolved
Sync ==
  /\ pc = "sync:start"
  /\ \E out \in SyncOutcomes :
       /\ calls' = Append(calls, Call("resyncAppOnAllArgos", Undefined, out))
       /\ response' = IF out.kind = "throw"
                        THEN SyncErrorResponse(out.error)
                        ELSE DataResponse("synced")
  /\ pc' = "sync:done"
  /\ UNCHANGED <<config, matchedArgoInstance, token, flags, attempts, resps>>

\* the positions at which a handler has returned
DonePositions ==
  {"done", "getByName:done", "getBySelector:done", "create:done", "sync:done"}

StartPositions ==
  {"start", "getByName:start", "getBySelector:start", "create:start",
   "sync:start"}

\* a request to any of the handlers
RouterInit ==
  /\ argoInstanceArray \in Directories
  /\ argoWaitCycles \in WaitCycleValues
  /\ argoInstanceName \in RequestNames
  /\ pc \in StartPositions
  /\ matchedArgoInstance = Undefined
  /\ token = Undefined
  /\ countinueToDeleteProject = TRUE
  /\ isAppexist = TRUE
  /\ isAppPendingDelete = FALSE
  /\ attempts = 0
  /\ argoDeleteAppResp = EmptyResp
  /\ argoDeleteProjectResp = EmptyResp
  /\ response = NoResponse
  /\ calls = <<>>

RouterNext ==
  \/ Resolve
  \/ GetArgoToken
  \/ DeleteApp
  \/ GetArgoAppData
  \/ Timer
  \/ ProjectDecision
  \/ DeleteProject
  \/ GetByNameResolve
  \/ GetByNameLogin
  \/ GetByNameData
  \/ GetBySelectorResolve
  \/ GetBySelectorLogin
  \/ GetBySelectorData
  \/ CreateResolve
  \/ CreateLogin
  \/ CreateArgoProject
  \/ CreateArgoApplication
  \/ Sync

RouterSpec == RouterInit /\ [][RouterNext]_vars

(* ---------------------------------------------------------------------- *)
(* Claims about all the handlers                                           *)
(* ---------------------------------------------------------------------- *)
NotInDirectory ==
  \A i \in 1..Len(argoInstanceArray) :
    argoInstanceArray[i].name # argoInstanceName
InstanceScoped == pc \notin {"sync:start", "sync:done"}
ClientCalls == SelectSeq(calls, LAMBDA c : c.op # "timer")

\* C11: when no instance of the directory has exactly the requested name,
\* each handler that names an instance (the two GETs, create, delete) makes
\* no ArgoCD client call and answers HTTP 500 with
\* {status: 'failed', message: 'cannot find an argo instance to match this
\* cluster'}.
C11_UnknownInstance ==
  (InstanceScoped /\ NotInDirectory) =>
    /\ calls = <<>>
    /\ pc \notin StartPositions =>
         /\ pc \in DonePositions
         /\ response.sent
         /\ response.httpStatus = 500
         /\ response.body =
              [kind |-> "failure", status |-> "failed",
               message |-> "cannot find an argo instance to match this cluster"]

C11_Witness ==
  /\ pc = "create:done"
  /\ argoInstanceName = "Prod"
  /\ \E i \in 1..Len(argoInstanceArray) : argoInstanceArray[i].name = "prod"
  /\ response = InstanceNotFoundResponse
  /\ calls = <<>>

\* C12: in the two GETs, create and delete: when the matched instance has a
\* token, getArgoToken is never called and every client call carries that
\* token; when it has none, getArgoToken is the first client call, is made
\* once (exactly once by the time the handler returns), and every later
\* client call carries the token it returned.
C12_TokenUse ==
  (InstanceScoped /\ matchedArgoInstance # Undefined) =>
    IF matchedArgoInstance.token.type = "string"
      THEN /\ Count("getArgoToken") = 0
           /\ \A i \in 1..Len(ClientCalls) :
                ClientCalls[i].token = matchedArgoInstance.token
      ELSE /\ Count("getArgoToken") <= 1
           /\ ClientCalls # <<>> => ClientCalls[1].op = "getArgoToken"
           /\ \A i \in 2..Len(ClientCalls) :
                /\ ClientCalls[1].out.kind # "throw"
                /\ ClientCalls[i].token = Str(ClientCalls[1].out.kind)
           /\ pc \in DonePositions => Count("getArgoToken") = 1

C12_Witness ==
  /\ pc = "done"
  /\ matchedArgoInstance # Undefined
  /\ matchedArgoInstance.token = Undefined
  /\ Count("getArgoToken") = 1
  /\ Count("getArgoAppData") >= 2
  /\ Count("deleteProject") = 1
  /\ CallsOf("deleteProject")[1].token = Str("tok1")

\* C13: when getArgoToken fails in a create or delete request, it is the
\* request's only client call, and the request ends with an error response
\* (not a 2xx one) whose HTTP status is the login error's status, 500 when
\* it has none, and whose message is the login error's message.
LoginFailed ==
  /\ Count("getArgoToken") = 1
  /\ CallsOf("getArgoToken")[1].out.kind = "throw"
LoginError == CallsOf("getArgoToken")[1].out.error

C13_LoginFailurePropagates ==
  LoginFailed =>
    /\ pc \in DonePositions
    /\ Len(calls) = 1
    /\ pc \in {"done", "create:done"} =>
         /\ response.sent
         /\ response.body.kind \in {"upstream", "errorHandler"}
         /\ response.httpStatus =
              (IF LoginError.status = 0 THEN 500 ELSE LoginError.status)
         /\ response.httpStatus >= 400
         /\ response.body.message = LoginError.message

C13_Witness ==
  /\ pc = "create:done"
  /\ LoginFailed
  /\ LoginError = [message |-> Str("upstream failed"), status |-> 401]
  /\ response.httpStatus = 401
  /\ response.body.message = Str("upstream failed")

\* C14: in a create request createArgoApplication is called only after
\* createArgoProject has returned; when createArgoProject fails, the
\* request ends at once with one error response whose HTTP status is the
\* error's status, 500 when it has none, and whose message is the error's
\* message, 'Failed to create argo project' when it has none.
ProjectCreationFailed ==
  /\ Count("createArgoProject") = 1
  /\ CallsOf("createArgoProject")[1].out.kind = "throw"
ProjectCreationError == CallsOf("createArgoProject")[1].out.error

C14_ProjectFailureAborts ==
  /\ Count("createArgoApplication") >= 1 =>
       /\ Count("createArgoProject") = 1
       /\ CallsOf("createArgoProject")[1].out.kind = "return"
       /\ calls[Len(calls) - 1].op = "createArgoProject"
       /\ calls[Len(calls)].op = "createArgoApplication"
  /\ ProjectCreationFailed =>
       /\ pc = "create:done"
       /\ Count("createArgoApplication") = 0
       /\ response.sent
       /\ response.body.kind = "upstream"
       /\ response.httpStatus =
            (IF ProjectCreationError.status = 0
               THEN 500 ELSE ProjectCreationError.status)
       /\ response.body.status = ProjectCreationError.status
       /\ response.body.message =
            (IF ProjectCreationError.message \in {Undefined, Str("")}
               THEN Str("Failed to create argo project")
               ELSE ProjectCreationError.message)

C14_Witness ==
  /\ pc = "create:done"
  /\ ProjectCreationFailed
  /\ ProjectCreationError = [message |-> Undefined, status |-> 0]
  /\ Count("getArgoToken") = 1
  /\ response.httpStatus = 500
  /\ response.body.message = Str("Failed to create argo project")

\* C15: a create request makes no client call other than getArgoToken,
\* createArgoProject and createArgoApplication, each at most once (nothing
\* is deleted or undone on any path); when createArgoApplication fails
\* after createArgoProject returned, it is the last call and the request
\* ends with an error response whose message is the error's message,
\* 'Failed to create argo app' when it has none.
CreatePositions ==
  {"create:start", "create:getArgoToken", "create:createArgoProject",
   "create:createArgoApplication", "create:done"}
AppCreationFailed ==
  /\ Count("createArgoApplication") = 1
  /\ CallsOf("createArgoApplication")[1].out.kind = "throw"
AppCreationError == CallsOf("createArgoApplication")[1].out.error

C15_NoRollback ==
  pc \in CreatePositions =>
    /\ \A i \in 1..Len(calls) :
         calls[i].op \in
           {"getArgoToken", "createArgoProject", "createArgoApplication"}
    /\ \A i, j \in 1..Len(calls) : calls[i].op = calls[j].op => i = j
    /\ AppCreationFailed =>
         /\ pc = "create:done"
         /\ CallsOf("createArgoProject")[1].out.kind = "return"
         /\ calls[Len(calls)].op = "createArgoApplication"
         /\ response.sent
         /\ response.body.kind = "upstream"
         /\ response.httpStatus >= 400
         /\ response.body.message =
              (IF AppCreationError.message \in {Undefined, Str("")}
                 THEN Str("Failed to create argo app")
                 ELSE AppCreationError.message)

C15_Witness ==
  /\ pc = "create:done"
  /\ AppCreationFailed
  /\ AppCreationError.message = Undefined
  /\ Len(calls) = 3
  /\ response.body.message = Str("Failed to create argo app")

\* C16: every error response to an upstream failure (a failed login,
\* project creation or application creation in create, a failed sync) has
\* the upstream error's status as its HTTP status when the error has one,
\* and 500 only when it has none.
MirroredStatus(e) == IF e.status = 0 THEN 500 ELSE e.status
SyncFailed ==
  /\ Count("resyncAppOnAllArgos") = 1
  /\ CallsOf("resyncAppOnAllArgos")[1].out.kind = "throw"

C16_StatusMirrorsUpstream ==
  /\ (pc = "create:done" /\ LoginFailed) =>
       response.httpStatus = MirroredStatus(LoginError)
  /\ (pc = "create:done" /\ ProjectCreationFailed) =>
       response.httpStatus = MirroredStatus(ProjectCreationError)
  /\ (pc = "create:done" /\ AppCreationFailed) =>
       response.httpStatus = MirroredStatus(AppCreationError)
  /\ (pc = "sync:done" /\ SyncFailed) =>
       response.httpStatus =
         MirroredStatus(CallsOf("resyncAppOnAllArgos")[1].out.error)

(* ---------------------------------------------------------------------- *)
(* More claims about the DELETE handler                                    *)
(* ---------------------------------------------------------------------- *)
\* the place of a client call in the order login, deleteApp, polls,
\* deleteProject
Rank(op) ==
  CASE op = "getArgoToken" -> 1
    [] op = "deleteApp" -> 2
    [] op = "getArgoAppData" -> 3
    [] op = "deleteProject" -> 4
    [] OTHER -> 5

C17_OrderAndNumber ==
  /\ \A i \in 1..Len(ClientCalls) : Rank(ClientCalls[i].op) <= 4
  /\ \A i, j \in 1..Len(ClientCalls) :
       i < j => Rank(ClientCalls[i].op) <= Rank(ClientCalls[j].op)
  /\ Count("getArgoToken") <= 1
  /\ Count("deleteApp") <= 1
  /\ Count("getArgoAppData") <= argoWaitCycles
  /\ Count("deleteProject") <= 1
  /\ (pc = "done" /\ TokenResolved) => Count("deleteApp") = 1

C17_Scenario ==
  /\ pc = "done"
  /\ TokenResolved
  /\ matchedArgoInstance.token = Undefined
  /\ DeleteAppOut.kind = "true"
  /\ Len(Polls) >= 1
  /\ Polls[1].out.kind = "nometadata"

C17_ScenarioResult ==
  /\ Count("getArgoToken") = 1
  /\ Count("deleteApp") = 1
  /\ Count("getArgoAppData") = 1
  /\ Count("deleteProject") = 1
  /\ Composite
  /\ SentApp.status = "success"
  /\ SentProject.status = "success"

\* C17 as stated: the client calls of a DELETE request come in the order
\* login, deleteApp, polls, deleteProject, with at most one login, exactly
\* one deleteApp, at most argoWaitCycles polls and at most one
\* deleteProject; and with no static token, deleteApp returning true and the
\* first poll showing the application gone there are exactly 1 login,
\* 1 deleteApp, 1 poll and 1 deleteProject call and both outcomes are
\* 'success'.
C17_AsStated ==
  /\ C17_OrderAndNumber
  /\ C17_Scenario => C17_ScenarioResult

\* C17 (amended): the same, with both outcomes 'success' when deleteProject
\* returns; when it throws, the calls are the same and the project outcome
\* is 'failed'.
C17_CallOrder ==
  /\ C17_OrderAndNumber
  /\ C17_Scenario =>
       /\ Count("getArgoToken") = 1
       /\ Count("deleteApp") = 1
       /\ Count("getArgoAppData") = 1
       /\ Count("deleteProject") = 1
       /\ Composite
       /\ SentApp.status = "success"
       /\ SentProject.status =
            IF DeleteProjectOut.kind = "return" THEN "success" ELSE "failed"

C17_Witness ==
  /\ C17_Scenario
  /\ argoWaitCycles >= 2
  /\ DeleteProjectOut.kind = "return"
  /\ C17_ScenarioResult

\* C19: when the poll loop has made all argoWaitCycles calls and none
\* returned a result lacking 'metadata', isAppPendingDelete is true exactly
\* when at least one call returned (throwing attempts after it do not clear
\* it): then the response is the pending one and deleteProject is not
\* called; when every attempt threw, the pending branch is not taken and
\* deleteProject is called unless deleteApp returned false.
C19_Exhausted ==
  /\ pc \in {"decide", "deleteProject", "done"}
  /\ DeleteAppCalled
  /\ isAppexist
  /\ Len(Polls) = argoWaitCycles
  /\ \A k \in 1..Len(Polls) : Polls[k].out.kind # "nometadata"

C19_SomeCallReturned == \E k \in 1..Len(Polls) : Polls[k].out.kind # "throw"

C19_PendingFlag ==
  C19_Exhausted =>
    /\ isAppPendingDelete = C19_SomeCallReturned
    /\ pc = "deleteProject" => ~C19_SomeCallReturned
    /\ pc = "done" =>
         /\ Composite
         /\ IF C19_SomeCallReturned
              THEN /\ SentApp = Resp("failed", "application pending delete")
                   /\ SentProject =
                        Resp("failed",
                             "skipping project deletion due to app deletion pending")
                   /\ Count("deleteProject") = 0
              ELSE /\ SentApp # Resp("failed", "application pending delete")
                   /\ SentProject #
                        Resp("failed",
                             "skipping project deletion due to app deletion pending")
                   /\ Count("deleteProject") =
                        (IF DeleteAppOut.kind = "false" THEN 0 ELSE 1)

C19_Witness ==
  /\ pc = "done"
  /\ C19_Exhausted
  /\ argoWaitCycles = 3
  /\ Polls[1].out.kind = "metadata"
  /\ Polls[2].out.kind = "throw"
  /\ Polls[3].out.kind = "throw"
  /\ SentApp = Resp("failed", "application pending delete")

(* ---------------------------------------------------------------------- *)
(* The DELETE handler as a function: the response of a request run alone,  *)
(* from the directory, the requested name and the client calls it made     *)
(* with their results.                                                     *)
(* ---------------------------------------------------------------------- *)
RECURSIVE LastReturned(_)
\* isAppPendingDelete after the polls ps: what the last poll that returned
\* said, false when none returned
LastReturned(ps) ==
  IF ps = <<>> THEN FALSE
  ELSE IF ps[Len(ps)].out.kind = "throw"
         THEN LastReturned(SubSeq(ps, 1, Len(ps) - 1))
         ELSE ps[Len(ps)].out.kind = "metadata"

SoloResponse(arr, name, cs) ==
  LET hits == {i \in 1..Len(arr) : arr[i].name = name}
      m == arr[CHOOSE i \in hits : \A j \in hits : i <= j]
      logins == SelectSeq(cs, LAMBDA c : c.op = "getArgoToken")
      d == SelectSeq(cs, LAMBDA c : c.op = "deleteApp")[1].out
      ps == SelectSeq(cs, LAMBDA c : c.op = "getArgoAppData")
      dp == SelectSeq(cs, LAMBDA c : c.op = "deleteProject")
      notFound == d.kind = "throw" /\ d.error.message.type = "string"
      app0 == IF d.kind = "false"
                THEN Resp("failed", "error with deleteing argo app")
                ELSE IF notFound THEN Resp("failed", d.error.message.val)
                                 ELSE EmptyResp
      gone == \E k \in 1..Len(ps) : ps[k].out.kind = "nometadata"
      app1 == IF gone
                THEN Resp("success", "application is deleted successfully")
                ELSE app0
  IN IF hits = {} THEN InstanceNotFoundResponse
     ELSE IF logins # <<>> /\ logins[1].out.kind = "throw"
            THEN ErrorHandlerResponse(logins[1].out.error)
     ELSE IF ~notFound /\ LastReturned(ps)
            THEN CompositeResponse(
                   Resp("failed", "application pending delete"),
                   Resp("failed",
                        "skipping project deletion due to app deletion pending"))
     ELSE IF d.kind = "false"
            THEN CompositeResponse(
                   app1,
                   Resp("failed",
                        "skipping project deletion due to erro deleting argo app"))
     ELSE IF dp[1].out.kind = "return"
            THEN CompositeResponse(
                   app1, Resp("success", "project is deleted successfully"))
     ELSE IF dp[1].out.error.message.type = "string"
            THEN CompositeResponse(
                   app1, Resp("failed", dp[1].out.error.message.val))
     ELSE CompositeResponse(
            app1, Resp("failed", "error with deleteing argo project"))

\* the handler of Spec answers as SoloResponse says
SoloResponseIsTheHandlers ==
  pc = "done" =>
    response = SoloResponse(argoInstanceArray, argoInstanceName, ClientCalls)

\* C20: when deleteApp throws an error whose message is not a string, no
\* app outcome is recorded, isAppexist and countinueToDeleteProject stay
\* true and the poll loop is entered (when argoWaitCycles >= 1); the
\* response is the one the same getArgoAppData and deleteProject results
\* give after a deleteApp that returned true.
C20_ThrewNoString ==
  /\ DeleteAppCalled
  /\ DeleteAppOut.kind = "throw"
  /\ DeleteAppOut.error.message.type # "string"

AsIfDeleted(cs) ==
  [i \in 1..Len(cs) |->
     IF cs[i].op = "deleteApp"
       THEN [cs[i] EXCEPT !.out = Returned("true")] ELSE cs[i]]

C20_UntypedErrorIgnored ==
  C20_ThrewNoString =>
    /\ isAppexist
    /\ countinueToDeleteProject
    /\ calls[Len(calls)].op = "deleteApp" =>
         /\ argoDeleteAppResp = EmptyResp
         /\ IF argoWaitCycles >= 1
              THEN pc = "getArgoAppData"
              ELSE pc \in {"decide", "deleteProject"}
    /\ (argoWaitCycles >= 1 /\ calls[Len(calls)].op # "deleteApp") =>
         Count("getArgoAppData") >= 1
    /\ pc = "done" =>
         response =
           SoloResponse(argoInstanceArray, argoInstanceName,
                        AsIfDeleted(ClientCalls))

C20_Witness ==
  /\ pc = "done"
  /\ C20_ThrewNoString
  /\ Len(Polls) = 2
  /\ Polls[2].out.kind = "nometadata"
  /\ Count("deleteProject") = 1
  /\ SentApp.status = "success"

(* ---------------------------------------------------------------------- *)
(* Concurrent DELETE requests.  The handler's locals are created by each   *)
(* invocation of the async function, so here every request variable holds  *)
(* one value per request; argoInstanceArray and argoWaitCycles belong to   *)
(* createRouter and are shared.  The requests' steps interleave at the     *)
(* awaits.                                                                 *)
(* ---------------------------------------------------------------------- *)
MaxConcWaitCycles == 1
Requests == 1..2
ConcDirectories == {d \in Directories : Len(d) = 1}

\* (isAppPendingDelete declared once in createRouter instead of per call)
FlagOwner_Shared(r) == 1

\* let isAppPendingDelete: the variable of the invocation that declares it
FlagOwner(r) == r

ConcInit ==
  /\ argoInstanceArray \in ConcDirectories
  /\ argoWaitCycles \in 0..MaxConcWaitCycles
  /\ argoInstanceName \in [Requests -> RequestNames]
  /\ pc = [r \in Requests |-> "start"]
  /\ matchedArgoInstance = [r \in Requests |-> Undefined]
  /\ token = [r \in Requests |-> Undefined]
  /\ countinueToDeleteProject = [r \in Requests |-> TRUE]
  /\ isAppexist = [r \in Requests |-> TRUE]
  /\ isAppPendingDelete = [r \in Requests |-> FALSE]
  /\ attempts = [r \in Requests |-> 0]
  /\ argoDeleteAppResp = [r \in Requests |-> EmptyResp]
  /\ argoDeleteProjectResp = [r \in Requests |-> EmptyResp]
  /\ response = [r \in Requests |-> NoResponse]
  /\ calls = [r \in Requests |-> <<>>]

ConcResolve(r) ==
  /\ pc[r] = "start"
  /\ LET m == Find(argoInstanceArray, argoInstanceName[r]) IN
       /\ matchedArgoInstance' = [matchedArgoInstance EXCEPT ![r] = m]
       /\ IF m = Undefined
            THEN /\ response' = [response EXCEPT ![r] = InstanceNotFoundResponse]
                 /\ pc' = [pc EXCEPT ![r] = "done"]
                 /\ token' = token
            ELSE /\ response' = response
                 /\ IF Falsy(m.token)
                      THEN /\ pc' = [pc EXCEPT ![r] = "getArgoToken"]
                           /\ token' = token
                      ELSE /\ pc' = [pc EXCEPT ![r] = "deleteApp"]
                           /\ token' = [token EXCEPT ![r] = m.token]
  /\ UNCHANGED <<config, flags, attempts, resps, calls>>

ConcGetArgoToken(r) ==
  /\ pc[r] = "getArgoToken"
  /\ \E out \in GetArgoTokenOutcomes :
       /\ calls' = [calls EXCEPT
                      ![r] = Append(@, Call("getArgoToken", Undefined, out))]
       /\ IF out.kind = "throw"
            THEN /\ response' =
                      [response EXCEPT ![r] = ErrorHandlerResponse(out.error)]
                 /\ pc' = [pc EXCEPT ![r] = "done"]
                 /\ token' = token
            ELSE /\ response' = response
                 /\ pc' = [pc EXCEPT ![r] = "deleteApp"]
                 /\ token' = [token EXCEPT ![r] = Str(out.kind)]
  /\ UNCHANGED <<config, matchedArgoInstance, flags, attempts, resps>>

ConcDeleteApp(r) ==
  /\ pc[r] = "deleteApp"
  /\ \E out \in DeleteAppOutcomes :
       /\ calls' = [calls EXCEPT
                      ![r] = Append(@, Call("deleteApp", token[r], out))]
       /\ countinueToDeleteProject' =
            [countinueToDeleteProject EXCEPT ![r] = ContinueAfterDeleteApp(out)]
       /\ isAppexist' = [isAppexist EXCEPT ![r] = AppExistsAfterDeleteApp(out)]
       /\ argoDeleteAppResp' =
            [argoDeleteAppResp EXCEPT ![r] = AppRespAfterDeleteApp(out)]
       /\ pc' = [pc EXCEPT
                   ![r] = IF EntersPolling(AppExistsAfterDeleteApp(out))
                            THEN "getArgoAppData" ELSE "decide"]
  /\ isAppPendingDelete' = [isAppPendingDelete EXCEPT ![FlagOwner(r)] = FALSE]
  /\ attempts' = [attempts EXCEPT ![r] = 0]
  /\ UNCHANGED <<config, matchedArgoInstance, token, argoDeleteProjectResp,
                 response>>

ConcGetArgoAppData(r) ==
  /\ pc[r] = "getArgoAppData"
  /\ \E out \in GetArgoAppDataOutcomes :
       /\ calls' = [calls EXCEPT
                      ![r] = Append(@, Call("getArgoAppData", token[r], out))]
       /\ IF out.kind = "throw"
            THEN /\ argoDeleteAppResp' =
                      [argoDeleteAppResp EXCEPT
                         ![r] = AppRespAfterPollError(attempts[r], @)]
                 /\ isAppPendingDelete' =
                      [isAppPendingDelete EXCEPT
                         ![FlagOwner(r)] = PendingAfterPollError(@)]
                 /\ attempts' = [attempts EXCEPT ![r] = @ + 1]
                 /\ pc' = [pc EXCEPT
                             ![r] = IF LoopTest(attempts[r] + 1)
                                      THEN "getArgoAppData" ELSE "decide"]
            ELSE /\ isAppPendingDelete' =
                      [isAppPendingDelete EXCEPT
                         ![FlagOwner(r)] = MetadataIn(out)]
                 /\ argoDeleteAppResp' =
                      IF ~MetadataIn(out)
                        THEN [argoDeleteAppResp EXCEPT
                                ![r] = Resp("success",
                                            "application is deleted successfully")]
                        ELSE argoDeleteAppResp
                 /\ attempts' = attempts
                 /\ pc' = [pc EXCEPT ![r] = PcAfterAppData(MetadataIn(out))]
  /\ UNCHANGED <<config, matchedArgoInstance, token, countinueToDeleteProject,
                 isAppexist, argoDeleteProjectResp, response>>

ConcTimer(r) ==
  /\ pc[r] = "timer"
  /\ calls' = [calls EXCEPT
                 ![r] = Append(@, Call("timer", Undefined, Returned("return")))]
  /\ attempts' = [attempts EXCEPT ![r] = @ + 1]
  /\ pc' = [pc EXCEPT
              ![r] = IF LoopTest(attempts[r] + 1)
                       THEN "getArgoAppData" ELSE "decide"]
  /\ UNCHANGED <<config, matchedArgoInstance, token, flags, resps, response>>

ConcProjectDecision(r) ==
  /\ pc[r] = "decide"
  /\ IF isAppPendingDelete[FlagOwner(r)] /\ isAppexist[r]
       THEN /\ argoDeleteAppResp' =
                 [argoDeleteAppResp EXCEPT
                    ![r] = Resp("failed", "application pending delete")]
            /\ argoDeleteProjectResp' =
                 [argoDeleteProjectResp EXCEPT
                    ![r] = Resp("failed",
                                "skipping project deletion due to app deletion pending")]
            /\ response' =
                 [response EXCEPT
                    ![r] = CompositeResponse(argoDeleteAppResp'[r],
                                             argoDeleteProjectResp'[r])]
            /\ pc' = [pc EXCEPT ![r] = "done"]
       ELSE IF countinueToDeleteProject[r]
              THEN /\ pc' = [pc EXCEPT ![r] = "deleteProject"]
                   /\ UNCHANGED <<resps, response>>
              ELSE /\ argoDeleteProjectResp' =
                        [argoDeleteProjectResp EXCEPT
                           ![r] = Resp("failed",
                                       "skipping project deletion due to erro deleting argo app")]
                   /\ argoDeleteAppResp' = argoDeleteAppResp
                   /\ response' =
                        [response EXCEPT
                           ![r] = CompositeResponse(argoDeleteAppResp'[r],
                                                    argoDeleteProjectResp'[r])]
                   /\ pc' = [pc EXCEPT ![r] = "done"]
  /\ UNCHANGED <<config, matchedArgoInstance, token, flags, attempts, calls>>

ConcDeleteProject(r) ==
  /\ pc[r] = "deleteProject"
  /\ \E out \in DeleteProjectOutcomes :
       /\ calls' = [calls EXCEPT
                      ![r] = Append(@, Call("deleteProject", token[r], out))]
       /\ argoDeleteProjectResp' =
            [argoDeleteProjectResp EXCEPT
               ![r] = IF out.kind = "throw"
                        THEN ProjectRespAfterError(out.error)
                        ELSE Resp("success", "project is deleted successfully")]
  /\ response' =
       [response EXCEPT
          ![r] = CompositeResponse(argoDeleteAppResp[r],
                                   argoDeleteProjectResp'[r])]
  /\ pc' = [pc EXCEPT ![r] = "done"]
  /\ UNCHANGED <<config, matchedArgoInstance, token, flags, attempts,
                 argoDeleteAppResp>>

ConcNext ==
  \/ \E r \in Requests : ConcResolve(r)
  \/ \E r \in Requests : ConcGetArgoToken(r)
  \/ \E r \in Requests : ConcDeleteApp(r)
  \/ \E r \in Requests : ConcGetArgoAppData(r)
  \/ \E r \in Requests : ConcTimer(r)
  \/ \E r \in Requests : ConcProjectDecision(r)
  \/ \E r \in Requests : ConcDeleteProject(r)

ConcSpec == ConcInit /\ [][ConcNext]_vars

\* C18: with two DELETE requests interleaved at their awaits, each
\* request's response is the one it gives when run alone with the same
\* client results; every step changes the variables of one request only,
\* and none changes the instance directory or argoWaitCycles.
LocalsOf(r) ==
  <<argoInstanceName[r], pc[r], matchedArgoInstance[r], token[r],
    countinueToDeleteProject[r], isAppexist[r], isAppPendingDelete[r],
    attempts[r], argoDeleteAppResp[r], argoDeleteProjectResp[r],
    response[r], calls[r]>>

C18_AsAlone ==
  \A r \in Requests :
    pc[r] = "done" =>
      response[r] =
        SoloResponse(argoInstanceArray, argoInstanceName[r],
                     SelectSeq(calls[r], LAMBDA c : c.op # "timer"))

C18_OneRequestPerStep ==
  /\ argoInstanceArray' = argoInstanceArray
  /\ argoWaitCycles' = argoWaitCycles
  /\ \E r \in Requests :
       \A q \in Requests \ {r} : LocalsOf(q)' = LocalsOf(q)

C18_Isolation == []C18_AsAlone /\ [][C18_OneRequestPerStep]_vars

C18_Witness ==
  /\ pc[1] = "timer"
  /\ isAppPendingDelete[1]
  /\ pc[2] = "done"
  /\ response[2].body.kind = "composite"
  /\ response[2].body.argoDeleteAppResp.status = "success"
  /\ C18_AsAlone

====
